---- MODULE Spec2Model ----
(***************************************************************************)
(* The mail-assistant background agent job.                                *)
(*                                                                         *)
(*   job store   : one directory per agent id holding input.json,          *)
(*                 state.json, log.txt and output.json                     *)
(*   job runner  : run_agent_background, in its two implementations        *)
(*                 (mail-assistant/app.py with agent_logging.py, and       *)
(*                 mail-assistant/tasks.py)                                *)
(*   front door  : POST /run of mail-assistant/server.py, which starts one *)
(*                 daemon thread per accepted request                      *)
(*                                                                         *)
(* A runner takes one step per write to a file of the job store; what the  *)
(* code does between two writes (reading input.json, the HTTP calls, the   *)
(* subprocess) touches nothing the other runners can see and is part of    *)
(* the step of the write before it.  Timestamps are left out of log lines  *)
(* and of output.json.                                                     *)
(***************************************************************************)
EXTENDS Naturals, Sequences, FiniteSets, TLC

(* ------------------------------ bounds -------------------------------- *)

\* calls of run_agent_background in one behaviour
MaxRuns == 2

\* lines of a streamed LLM answer
MaxLines == 3

\* requests to /chat that reach the executor
MaxChats == 2

\* messages a client sends on one /ws/chat session after the handshake
MaxMsgs == 2

\* the runner threads the service starts
MaxThreads == 2

Runs == 1..MaxRuns

\* the job ids that name a directory of the store
Ids == {"a"}

(* --------------------------- JSON values ------------------------------ *)

\* an agent_id as it arrives in the body of POST /run
Str(s) == [t |-> "str", s |-> s]
Num(s) == [t |-> "num", s |-> s]
AbsentVal == [t |-> "absent", s |-> ""]

\* Python truthiness of an agent_id value (server.py: if not agent_id)
Truthy(v) == (v.t = "str" /\ v.s # "") \/ (v.t = "num" /\ v.s # "0")

\* the tool field of input.json
ToolAbsent == [t |-> "absent", name |-> <<>>]
ToolEmpty == [t |-> "emptyobj", name |-> <<>>]
ToolStr == [t |-> "str", name |-> <<>>]
Tool(name) == [t |-> "obj", name |-> <<name>>]
ToolNoName == [t |-> "obj", name |-> <<>>]

\* payload.get("tool") is truthy
ToolRequested(tool) == tool.t \in {"obj", "str"}

\* the adapters present under /app/tools
InstalledAdapters == {"mailer"}

\* input.json: absent, not JSON, JSON that is no object, or an object
NoFile == [kind |-> "nofile"]
BadJson == [kind |-> "badjson"]
ArrayJson == [kind |-> "array"]
Payload(prompt, task, flow_id, tool) ==
  [kind |-> "object", prompt |-> prompt, task |-> task, flow_id |-> flow_id, tool |-> tool]

PromptOnly == Payload(<<"summarise">>, <<>>, <<>>, ToolAbsent)

Payloads ==
  { PromptOnly,
    Payload(<<>>, <<"triage">>, <<>>, ToolAbsent),
    Payload(<<>>, <<>>, <<"">>, ToolEmpty),
    Payload(<<"summarise">>, <<>>, <<"f1">>, ToolAbsent),
    Payload(<<"summarise">>, <<>>, <<>>, Tool("mailer")),
    Payload(<<"summarise">>, <<>>, <<>>, Tool("nope")),
    Payload(<<"summarise">>, <<>>, <<"f1">>, Tool("nope")),
    Payload(<<"summarise">>, <<>>, <<>>, ToolNoName),
    Payload(<<"summarise">>, <<>>, <<>>, ToolStr) }

InputContents == {NoFile, BadJson, ArrayJson} \cup Payloads

OnlyPrompt(p) ==
  /\ p.kind = "object"
  /\ p.prompt # <<>> /\ p.task = <<>> /\ p.flow_id = <<>> /\ p.tool = ToolAbsent

HasFlowId(p) == p.kind = "object" /\ p.flow_id # <<>> /\ p.flow_id[1] # ""

(* ---------------------------- exceptions ------------------------------ *)

Exc(type, msg) == [type |-> type, msg |-> msg]
NoExc == Exc("", "")

\* open() of a file in a directory that does not exist
NoDirErr(i, file) ==
  Exc("FileNotFoundError", "[Errno 2] No such file or directory: agents/" \o i \o "/" \o file)

\* a write the operating system refuses
IoErr(file) == Exc("OSError", "[Errno 28] No space left on device: " \o file)

(* ----------------------- the workflow engine -------------------------- *)

FlowNull == [t |-> "null", kv |-> {}]
FlowObj(k, v) == [t |-> "obj", kv |-> {<<k, v>>}]
FlowEmpty == [t |-> "obj", kv |-> {}]
FlowArr == [t |-> "arr", kv |-> {}]

\* bool(flow_out) and isinstance(flow_out, dict)
FlowTruthy(v) == v.t = "arr" \/ (v.t = "obj" /\ v.kv # {})
FlowIsDict(v) == v.t = "obj"

\* what call_flowise can do: return the reply's JSON, or raise
FlowReplies ==
  { [ok |-> TRUE, val |-> FlowObj("answer", "42"), exc |-> NoExc],
    [ok |-> TRUE, val |-> FlowEmpty, exc |-> NoExc],
    [ok |-> TRUE, val |-> FlowArr, exc |-> NoExc],
    [ok |-> FALSE, val |-> FlowNull, exc |-> Exc("HTTPError", "500 Server Error for url: /api/v1/flows/run")] }

(* ------------------------- the LLM endpoint --------------------------- *)

\* one line of an NDJSON body
Blank == [t |-> "blank", v |-> ""]
Chunk(s) == [t |-> "chunk", v |-> s]
NoChunk == [t |-> "nochunk", v |-> ""]
Raw(s) == [t |-> "raw", v |-> s]

\* app.py call_ollama, lines 43-55: the parts joined in order
RECURSIVE Combined(_)
Combined(lines) ==
  IF lines = <<>> THEN ""
  ELSE LET l == Head(lines) IN
       (IF l.t \in {"chunk", "raw"} THEN l.v ELSE "") \o Combined(Tail(lines))

\* an object whose text is under "token" instead of "response"
Token(s) == [t |-> "token", v |-> s]

\* the line as iter_lines hands it over
RawText(l) ==
  CASE l.t = "chunk" -> "{\"response\":\"" \o l.v \o "\"}"
    [] l.t = "token" -> "{\"token\":\"" \o l.v \o "\"}"
    [] l.t = "nochunk" -> "{\"done\":true}"
    [] OTHER -> l.v

\* OllamaLLM._call, lines 37-58: the first of response, token, content that is a
\* string is the chunk; a chunk that is empty or missing makes the raw line a part
RECURSIVE LLMCombined(_)
LLMCombined(lines) ==
  IF lines = <<>> THEN ""
  ELSE LET l == Head(lines) IN
       (IF l.t = "blank" THEN ""
        ELSE IF l.t \in {"chunk", "token"} /\ l.v # "" THEN l.v
        ELSE RawText(l)) \o LLMCombined(Tail(lines))

\* the lines a streamed answer is made of
NdLines == {Blank, Chunk("Hel"), Chunk("lo"), Chunk(""), NoChunk, Token("tok"), Raw("oops")}

NdBodies == UNION {[1..n -> NdLines] : n \in 0..MaxLines}

\* what the endpoint can answer
LlmReplies ==
  { [kind |-> "http_error", lines |-> <<>>],
    [kind |-> "ndjson", lines |-> <<Chunk("Hel"), Chunk("lo"), NoChunk>>],
    [kind |-> "json", lines |-> <<>>] }

JsonBody == [response |-> "Hi", done |-> "true"]

Ret(v) == [ok |-> TRUE, val |-> <<v>>, exc |-> NoExc]
Raise(e) == [ok |-> FALSE, val |-> <<>>, exc |-> e]

\* app.py call_ollama
CallOllamaApp(reply) ==
  CASE reply.kind = "http_error" -> Raise(Exc("RuntimeError", "Ollama HTTP 500: <no body>"))
    [] reply.kind = "ndjson" -> Ret([model |-> "llama3", text |-> Combined(reply.lines)])
    [] OTHER -> Ret(JsonBody)

\* a tasks.py that cannot read a plain JSON answer either: C24 fails against it
CallOllamaTasksNoJson(reply) ==
  CASE reply.kind = "http_error" -> Raise(Exc("HTTPError", "500 Server Error for url: /api/generate"))
    [] OTHER -> Raise(Exc("JSONDecodeError", "Expecting value: line 1 column 1 (char 0)"))

\* tasks.py call_ollama: raise_for_status, then resp.json() of the whole body
CallOllamaTasks(reply) ==
  CASE reply.kind = "http_error" -> Raise(Exc("HTTPError", "500 Server Error for url: /api/generate"))
    [] reply.kind = "ndjson" ->
         IF Len(reply.lines) = 1 /\ reply.lines[1].t \in {"chunk", "nochunk"}
           THEN Ret([response |-> reply.lines[1].v, done |-> "false"])
           ELSE Raise(Exc("JSONDecodeError", "Extra data: line 2 column 1"))
    [] OTHER -> Ret(JsonBody)

(* ------------------------- the tool adapter --------------------------- *)

\* what subprocess.run of an installed adapter can do
AdapterOutcomes ==
  { [kind |-> "exit", rc |-> 0],
    [kind |-> "exit", rc |-> 1],
    [kind |-> "timeout", rc |-> 0],
    [kind |-> "oserror", rc |-> 0] }

AdapterResult(rc) ==
  [returncode |-> rc, stdout |-> IF rc = 0 THEN "{}" ELSE "", stderr |-> IF rc = 0 THEN "" ELSE "boom"]

(* ------------------------------ state --------------------------------- *)

VARIABLES
  dirs,        \* the ids whose job directory exists
  inputFile,   \* id -> input.json
  stateFile,   \* id -> <<>> (no state.json) or <<its value>>
  outputFile,  \* id -> <<>> (no output.json) or <<its value>>
  logFile,     \* id -> the lines of log.txt
  run,         \* call of run_agent_background -> its position and locals
  impl,        \* which run_agent_background the process runs: "app" or "tasks"
  faultArmed,  \* the operating system may still refuse one write
  world,       \* what the workflow engine, the LLM endpoint and an adapter can do
  resp,        \* the last answer of POST /run
  ndjson,      \* a streamed LLM answer and the text each reader made of it
  ui,          \* the agent-ui backend: AGENT, its requests and its socket session
  trial        \* a job given to both implementations: how it began, what the first left

vars == <<dirs, inputFile, stateFile, outputFile, logFile, run, impl, faultArmed, world, resp, ndjson, ui, trial>>

store == <<dirs, inputFile, stateFile, outputFile, logFile>>

config == <<impl, faultArmed, world>>

\* what run_agent_background and POST /run never touch
front == <<ndjson, ui, trial>>

\* the mail-assistant side: job store, runs, configuration and POST /run
back == <<store, run, config, resp, trial>>

\* how often a call has reached the workflow engine, the LLM and run_tool_adapter
NoCalls == [flow |-> 0, llm |-> 0, adapter |-> 0]

IdleRun ==
  [ pc |-> "idle", id |-> AbsentVal, payload |-> NoFile, flow_out |-> FlowNull,
    prompt |-> <<>>, gen |-> <<>>, adapter_result |-> <<>>, adapter_error |-> <<>>,
    e |-> NoExc, ie |-> NoExc, raised |-> NoExc,
    flow_exc |-> NoExc, llm_exc |-> NoExc, calls |-> NoCalls, faulted |-> FALSE ]

\* the call is over: its locals are gone; what it raised, the exception its handler
\* caught and the record of its external calls stay for the claims
Finish(rec, pc, raised) ==
  [IdleRun EXCEPT !.pc = pc, !.id = rec.id, !.raised = raised, !.e = rec.e,
                  !.flow_exc = rec.flow_exc, !.llm_exc = rec.llm_exc,
                  !.calls = rec.calls, !.faulted = rec.faulted]

Terminated(r) == run[r].pc \in {"returned", "raised"}
Started(r) == run[r].pc # "idle"
Active(r) == Started(r) /\ ~Terminated(r)

\* the job directory of a run whose agent_id is a string
JobOf(r) == run[r].id.s

(* --------------------------- the job store ---------------------------- *)

\* agent_logging.py creates the job directory before every write; tasks.py opens
\* the file as it is, and open() raises when the directory is missing
CanWrite(i) == impl = "app" \/ i \in dirs

\* ensure_agent_dir (agent_logging.py); tasks.py has no such call
EnsureAgentDir(i) == IF impl = "app" THEN dirs \cup {i} ELSE dirs

\* an append_agent_log that opens log.txt for writing instead of appending: C13
\* fails against it
AppendAgentLogTruncating(i, line) ==
  /\ logFile' = [logFile EXCEPT ![i] = <<line>>]
  /\ dirs' = EnsureAgentDir(i)

\* append_agent_log: one more line at the end of log.txt
AppendAgentLog(i, line) ==
  /\ logFile' = [logFile EXCEPT ![i] = Append(@, line)]
  /\ dirs' = EnsureAgentDir(i)

\* a write_agent_state that keeps a state.json already there: C10 fails against it
WriteAgentStateOnce(i, data) ==
  /\ stateFile' = [stateFile EXCEPT ![i] = IF @ = <<>> THEN <<data>> ELSE @]
  /\ dirs' = EnsureAgentDir(i)

\* write_agent_state: state.json replaced by data
WriteAgentState(i, data) ==
  /\ stateFile' = [stateFile EXCEPT ![i] = <<data>>]
  /\ dirs' = EnsureAgentDir(i)

\* a write of output.json that leaves no file behind: C20 fails against it
WriteOutputLost(i, out) == UNCHANGED outputFile

\* (agent_dir / "output.json").write_text(json.dumps(out))
WriteOutput(i, out) == outputFile' = [outputFile EXCEPT ![i] = <<out>>]

\* the values run_agent_background writes to state.json; by is the writing call,
\* which the file itself does not hold
Running(r) == [status |-> "running", progress |-> 0, error |-> <<>>, by |-> r]
Completed(r) == [status |-> "completed", progress |-> 100, error |-> <<>>, by |-> r]
\* a failed state without the error field: C12 fails against it
FailedNoError(r, msg) == [status |-> "failed", progress |-> 0, error |-> <<>>, by |-> r]

Failed(r, msg) == [status |-> "failed", progress |-> 0, error |-> <<msg>>, by |-> r]

\* Out without the generation: C1 fails against it
OutNoResponse(r) ==
  [ model_response |-> <<>>, flowise |-> run[r].flow_out,
    adapter_result |-> run[r].adapter_result, adapter_error |-> run[r].adapter_error,
    by |-> r ]

\* the dict written to output.json (completed_at is a timestamp, left out)
Out(r) ==
  [ model_response |-> run[r].gen, flowise |-> run[r].flow_out,
    adapter_result |-> run[r].adapter_result, adapter_error |-> run[r].adapter_error,
    by |-> r ]

\* the refusals the operating system can still choose for the next write
Faults == IF faultArmed THEN {FALSE, TRUE} ELSE {FALSE}

\* the error of a write to a file of job i, <<>> when it succeeds
WriteErr(i, f, file) ==
  IF ~CanWrite(i) THEN <<NoDirErr(i, file)>> ELSE IF f THEN <<IoErr(file)>> ELSE <<>>

Mark(rec, f) == [rec EXCEPT !.faulted = @ \/ f]

\* except Exception as e (app.py line 138, tasks.py line 109)
Caught(rec, e) == [rec EXCEPT !.pc = "h_state", !.e = e]

\* where the raise of a write lands: the outer handler (line 138), an inner
\* handler (105, 131), the except/pass of line 141, or the caller
Outer(rec) == [to |-> "outer", rec |-> rec, pc |-> "h_state"]
Inner(rec, pc) == [to |-> "inner", rec |-> rec, pc |-> pc]
Swallow(rec, pc) == [to |-> "pass", rec |-> rec, pc |-> pc]
Propagate(rec) == [to |-> "caller", rec |-> rec, pc |-> "raised"]

Land(h, e) ==
  CASE h.to = "outer" -> Caught(h.rec, e)
    [] h.to = "inner" -> [h.rec EXCEPT !.pc = h.pc, !.ie = e]
    [] h.to = "pass" -> [h.rec EXCEPT !.pc = h.pc]
    [] OTHER -> Finish(h.rec, "raised", e)

\* a step that appends line to log.txt: the runner goes on as onOk, or where
\* onErr says when the append raises
\* when the append raises e
AppendStep(r, line, onOk, onErr) ==
  \E f \in Faults :
    LET i == JobOf(r)
        err == WriteErr(i, f, "log.txt")
    IN /\ f => CanWrite(i)
       /\ faultArmed' = (faultArmed /\ ~f)
       /\ IF err = <<>>
            THEN /\ AppendAgentLog(i, line)
                 /\ run' = [run EXCEPT ![r] = onOk]
            ELSE /\ UNCHANGED <<logFile, dirs>>
                 /\ run' = [run EXCEPT ![r] = Mark(Land(onErr, err[1]), f)]
       /\ UNCHANGED <<inputFile, stateFile, outputFile, impl, world, resp, front>>

\* a step that writes data to state.json
StateStep(r, data, onOk, onErr) ==
  \E f \in Faults :
    LET i == JobOf(r)
        err == WriteErr(i, f, "state.json")
    IN /\ f => CanWrite(i)
       /\ faultArmed' = (faultArmed /\ ~f)
       /\ IF err = <<>>
            THEN /\ WriteAgentState(i, data)
                 /\ run' = [run EXCEPT ![r] = onOk]
            ELSE /\ UNCHANGED <<stateFile, dirs>>
                 /\ run' = [run EXCEPT ![r] = Mark(Land(onErr, err[1]), f)]
       /\ UNCHANGED <<inputFile, logFile, outputFile, impl, world, resp, front>>

(* ------------------------ run_agent_background ------------------------ *)

CallOllama(reply) == IF impl = "app" THEN CallOllamaApp(reply) ELSE CallOllamaTasks(reply)

\* payload.get("prompt") or payload.get("task") or "No task provided"
TaskText(p) ==
  IF p.prompt # <<>> /\ p.prompt[1] # "" THEN p.prompt[1]
  ELSE IF p.task # <<>> /\ p.task[1] # "" THEN p.task[1]
  ELSE "No task provided"

\* a prompt that takes in whatever the workflow call left: C17 fails against it
BuildPromptAny(p, flow_out) ==
  [ task |-> TaskText(p),
    context |-> IF flow_out # FlowNull THEN <<flow_out>> ELSE <<>> ]

\* the prompt: the task text, and the workflow output when it is a non-empty dict
BuildPrompt(p, flow_out) ==
  [ task |-> TaskText(p),
    context |-> IF FlowTruthy(flow_out) /\ FlowIsDict(flow_out) THEN <<flow_out>> ELSE <<>> ]

\* the adapter name as an f-string prints it
NameText(tool) == IF tool.name = <<>> THEN "None" ELSE tool.name[1]

\* a runner that goes from input.json straight to the LLM: C18 fails against it
AfterReadNoFlow(rec, content) ==
  CASE content.kind = "nofile" ->
         Caught(rec, Exc("RuntimeError", "input.json missing for agent " \o rec.id.s))
    [] content.kind = "badjson" ->
         Caught(rec, Exc("JSONDecodeError", "Expecting value: line 1 column 1 (char 0)"))
    [] content.kind = "array" ->
         Caught(rec, Exc("AttributeError", "'list' object has no attribute 'get'"))
    [] OTHER ->
         [rec EXCEPT !.payload = content, !.pc = "log_ollama"]

\* input.json read and parsed, and flow_id looked up
AfterRead(rec, content) ==
  CASE content.kind = "nofile" ->
         Caught(rec, Exc("RuntimeError", "input.json missing for agent " \o rec.id.s))
    [] content.kind = "badjson" ->
         Caught(rec, Exc("JSONDecodeError", "Expecting value: line 1 column 1 (char 0)"))
    [] content.kind = "array" ->
         Caught(rec, Exc("AttributeError", "'list' object has no attribute 'get'"))
    [] OTHER ->
         [rec EXCEPT !.payload = content,
                     !.pc = IF HasFlowId(content) THEN "log_flow" ELSE "log_ollama"]

\* a workflow call whose raise reaches the outer handler: C3 fails against it
AfterFlowiseFatal(rec, reply) ==
  IF reply.ok
    THEN [rec EXCEPT !.pc = "log_flow_ok", !.flow_out = reply.val, !.calls.flow = @ + 1]
    ELSE Caught([rec EXCEPT !.flow_exc = reply.exc, !.calls.flow = @ + 1], reply.exc)

\* call_flowise inside the inner try
AfterFlowise(rec, reply) ==
  IF reply.ok
    THEN [rec EXCEPT !.pc = "log_flow_ok", !.flow_out = reply.val, !.calls.flow = @ + 1]
    ELSE [rec EXCEPT !.pc = "log_flow_fail", !.ie = reply.exc, !.flow_exc = reply.exc,
                     !.calls.flow = @ + 1]

\* an LLM call whose raise is swallowed and the run goes on without a
\* generation: C5 fails against it
AfterOllamaLenient(rec, res) ==
  IF res.ok THEN [rec EXCEPT !.pc = "log_ollama_ok", !.gen = res.val, !.calls.llm = @ + 1]
  ELSE [rec EXCEPT !.pc = "log_ollama_ok", !.llm_exc = res.exc, !.calls.llm = @ + 1]

\* an LLM call that is issued again after it raised: C14 fails against it
AfterOllamaRetry(rec, res) ==
  IF res.ok THEN [rec EXCEPT !.pc = "log_ollama_ok", !.gen = res.val, !.calls.llm = @ + 1]
  ELSE [rec EXCEPT !.pc = "log_ollama", !.llm_exc = res.exc, !.calls.llm = @ + 1]

\* gen = call_ollama(prompt)
AfterOllama(rec, res) ==
  IF res.ok THEN [rec EXCEPT !.pc = "log_ollama_ok", !.gen = res.val, !.calls.llm = @ + 1]
  ELSE Caught([rec EXCEPT !.llm_exc = res.exc, !.calls.llm = @ + 1], res.exc)

\* out is built and payload.get("tool") looked at
AfterGen(rec) ==
  LET tool == rec.payload.tool IN
  IF ~ToolRequested(tool) THEN [rec EXCEPT !.pc = "write_output"]
  ELSE IF tool.t = "str"
    THEN Caught(rec, Exc("AttributeError", "'str' object has no attribute 'get'"))
  ELSE [rec EXCEPT !.pc = "log_adapter"]

\* a runner whose handler receives the adapter's timeout: C19 fails against it
AfterAdapterStartTimeoutFatal(rec0, o) ==
  LET tool == rec0.payload.tool
      rec == [rec0 EXCEPT !.calls.adapter = @ + 1]
  IN
  IF tool.name = <<>>
    THEN [rec EXCEPT !.pc = "log_adapter_fail",
                     !.ie = Exc("TypeError", "unsupported operand type(s) for /: 'PosixPath' and 'NoneType'")]
  ELSE IF tool.name[1] \notin InstalledAdapters
    THEN [rec EXCEPT !.pc = "log_notfound"]
  ELSE IF o.kind = "exit"
    THEN [rec EXCEPT !.pc = "log_adapter_ok", !.adapter_result = <<AdapterResult(o.rc)>>]
  ELSE IF o.kind = "timeout"
    THEN Caught(rec, Exc("TimeoutExpired", "Command timed out after 600 seconds"))
  ELSE [rec EXCEPT !.pc = "log_adapter_fail",
                   !.ie = Exc("PermissionError", "[Errno 13] Permission denied")]

\* run_tool_adapter up to its first write or its return
AfterAdapterStart(rec0, o) ==
  LET tool == rec0.payload.tool
      rec == [rec0 EXCEPT !.calls.adapter = @ + 1]
  IN
  IF tool.name = <<>>
    THEN [rec EXCEPT !.pc = "log_adapter_fail",
                     !.ie = Exc("TypeError", "unsupported operand type(s) for /: 'PosixPath' and 'NoneType'")]
  ELSE IF tool.name[1] \notin InstalledAdapters
    THEN [rec EXCEPT !.pc = "log_notfound"]
  ELSE IF o.kind = "exit"
    THEN [rec EXCEPT !.pc = "log_adapter_ok", !.adapter_result = <<AdapterResult(o.rc)>>]
  ELSE IF o.kind = "timeout"
    THEN [rec EXCEPT !.pc = "log_adapter_fail",
                     !.ie = Exc("TimeoutExpired", "Command timed out after 600 seconds")]
  ELSE [rec EXCEPT !.pc = "log_adapter_fail",
                   !.ie = Exc("PermissionError", "[Errno 13] Permission denied")]

\* line 88 (58), outside the try, and the first log line
LogStart(r) ==
  /\ run[r].pc = "start"
  /\ IF run[r].id.t # "str"
       THEN /\ run' = [run EXCEPT ![r] = Finish(@, "raised",
                                  Exc("TypeError", "unsupported operand type(s) for /: 'PosixPath' and 'int'"))]
            /\ UNCHANGED <<store, config, resp, front>>
       ELSE AppendStep(r, "Agent started",
                       [run[r] EXCEPT !.pc = "state_running"],
                       Outer(run[r]))

\* a runner that waits at its first state write while another run of the same
\* job is between its own first and last state write: C9 fails against it
StateRunningLocked(r) ==
  /\ run[r].pc = "state_running"
  /\ \A q \in Runs \ {r} :
       (Active(q) /\ run[q].id = run[r].id) => run[q].pc \in {"start", "state_running"}
  /\ StateStep(r, Running(r),
               AfterRead(run[r], inputFile[JobOf(r)]),
               Outer(run[r]))

\* state "running", then input.json
StateRunning(r) ==
  /\ run[r].pc = "state_running"
  /\ StateStep(r, Running(r),
               AfterRead(run[r], inputFile[JobOf(r)]),
               Outer(run[r]))

LogFlow(r) ==
  /\ run[r].pc = "log_flow"
  /\ \E reply \in world.flow :
       AppendStep(r, "Calling Flowise flow " \o run[r].payload.flow_id[1],
                  AfterFlowise(run[r], reply),
                  Outer(run[r]))

LogFlowOk(r) ==
  /\ run[r].pc = "log_flow_ok"
  /\ AppendStep(r, "Flowise responded",
                [run[r] EXCEPT !.pc = "log_ollama"],
                Inner(run[r], "log_flow_fail"))

LogFlowFail(r) ==
  /\ run[r].pc = "log_flow_fail"
  /\ AppendStep(r, "Flowise failed: " \o run[r].ie.msg,
                [run[r] EXCEPT !.pc = "log_ollama", !.flow_out = FlowObj("error", run[r].ie.msg)],
                Outer(run[r]))

LogOllama(r) ==
  /\ run[r].pc = "log_ollama"
  /\ \E reply \in world.llm :
       LET rec == [run[r] EXCEPT !.prompt = <<BuildPrompt(run[r].payload, run[r].flow_out)>>]
       IN AppendStep(r, "Calling Ollama",
                     AfterOllama(rec, CallOllama(reply)),
                     Outer(rec))

LogOllamaOk(r) ==
  /\ run[r].pc = "log_ollama_ok"
  /\ AppendStep(r, "Ollama responded",
                AfterGen(run[r]),
                Outer(run[r]))

LogAdapter(r) ==
  /\ run[r].pc = "log_adapter"
  /\ \E o \in world.adapter :
       AppendStep(r, "Running adapter " \o NameText(run[r].payload.tool),
                  AfterAdapterStart(run[r], o),
                  Outer(run[r]))

\* a missing adapter whose FileNotFoundError reaches the outer handler: C4 fails
\* against it
LogNotFoundFatal(r) ==
  /\ run[r].pc = "log_notfound"
  /\ LET msg == "Adapter not found: " \o NameText(run[r].payload.tool)
     IN AppendStep(r, msg,
                   Caught(run[r], Exc("FileNotFoundError", msg)),
                   Outer(run[r]))

\* run_tool_adapter, lines 74-75 (48-49)
LogNotFound(r) ==
  /\ run[r].pc = "log_notfound"
  /\ LET msg == "Adapter not found: " \o NameText(run[r].payload.tool)
     IN AppendStep(r, msg,
                   [run[r] EXCEPT !.pc = "log_adapter_fail", !.ie = Exc("FileNotFoundError", msg)],
                   Inner(run[r], "log_adapter_fail"))

LogAdapterOk(r) ==
  /\ run[r].pc = "log_adapter_ok"
  /\ AppendStep(r, "Adapter finished rc=" \o (IF run[r].adapter_result[1].returncode = 0 THEN "0" ELSE "1"),
                [run[r] EXCEPT !.pc = "write_output"],
                Inner(run[r], "log_adapter_fail"))

LogAdapterFail(r) ==
  /\ run[r].pc = "log_adapter_fail"
  /\ AppendStep(r, "Adapter failed: " \o run[r].ie.msg,
                [run[r] EXCEPT !.pc = "write_output", !.adapter_error = <<run[r].ie.msg>>],
                Outer(run[r]))

WriteOutputStep(r) ==
  /\ run[r].pc = "write_output"
  /\ \E f \in Faults :
       LET i == JobOf(r)
           err == IF i \notin dirs THEN <<NoDirErr(i, "output.json")>>
                  ELSE IF f THEN <<IoErr("output.json")>> ELSE <<>>
       IN /\ f => i \in dirs
          /\ faultArmed' = (faultArmed /\ ~f)
          /\ IF err = <<>>
               THEN /\ WriteOutput(i, Out(r))
                    /\ run' = [run EXCEPT ![r].pc = "state_completed"]
               ELSE /\ UNCHANGED outputFile
                    /\ run' = [run EXCEPT ![r] = Mark(Caught(run[r], err[1]), f)]
          /\ UNCHANGED <<dirs, inputFile, stateFile, logFile, impl, world, resp, front>>

StateCompleted(r) ==
  /\ run[r].pc = "state_completed"
  /\ StateStep(r, Completed(r),
               [run[r] EXCEPT !.pc = "log_completed"],
               Outer(run[r]))

LogCompleted(r) ==
  /\ run[r].pc = "log_completed"
  /\ AppendStep(r, "Agent completed",
                Finish(run[r], "returned", NoExc),
                Outer(run[r]))

\* the handler: app.py swallows a failure of the state write, tasks.py does not
HandlerState(r) ==
  /\ run[r].pc = "h_state"
  /\ StateStep(r, Failed(r, run[r].e.msg),
               [run[r] EXCEPT !.pc = "h_log"],
               IF impl = "app" THEN Swallow(run[r], "h_log") ELSE Propagate(run[r]))

\* the last log line; then raise
HandlerLog(r) ==
  /\ run[r].pc = "h_log"
  /\ AppendStep(r, "Agent failed: " \o run[r].e.msg,
                Finish(run[r], "raised", run[r].e),
                Propagate(run[r]))

RunStep(r) ==
  \/ LogStart(r)
  \/ StateRunning(r)
  \/ LogFlow(r)
  \/ LogFlowOk(r)
  \/ LogFlowFail(r)
  \/ LogOllama(r)
  \/ LogOllamaOk(r)
  \/ LogAdapter(r)
  \/ LogNotFound(r)
  \/ LogAdapterOk(r)
  \/ LogAdapterFail(r)
  \/ WriteOutputStep(r)
  \/ StateCompleted(r)
  \/ LogCompleted(r)
  \/ HandlerState(r)
  \/ HandlerLog(r)

(* ----------------------------- agent-ui ------------------------------- *)

\* AGENT_UI_API_KEY as configured
API_KEY == "changeme"

\* an optional string: a JSON field or a header
Keys == {<<>>, <<API_KEY>>, <<"wrong">>}
Inputs == {<<>>, <<"">>, <<"hi">>}

\* a or b, for optional strings: the first that is there and not empty
OrElse(a, b) == IF a # <<>> /\ a[1] # "" THEN a ELSE b

\* the requests a client can post to /chat
ChatRequests ==
  { [kind |-> "notjson", input |-> <<>>, text |-> <<>>, xkey |-> <<>>, key |-> <<>>],
    [kind |-> "array", input |-> <<>>, text |-> <<>>, xkey |-> <<>>, key |-> <<>>] }
  \cup [kind : {"object"}, input : Inputs, text : {<<>>, <<"hi">>}, xkey : Keys, key : Keys]

\* payload.get("input") or payload.get("text") or ""
UserInput(q) == LET v == OrElse(q.input, q.text) IN IF v = <<>> THEN "" ELSE v[1]

\* request.headers.get("x-api-key") or request.headers.get("api-key")
ApiKey(q) == OrElse(q.xkey, IF q.key = <<>> \/ q.key[1] = "" THEN <<>> ELSE q.key)

Chats == 1..MaxChats

NoRequest == [kind |-> "none", input |-> <<>>, text |-> <<>>, xkey |-> <<>>, key |-> <<>>]

\* a call of run_agent handed to the executor, with the user_input it closes over
IdleJob == [pc |-> "idle", user_input |-> "", agent |-> 0]

\* the messages a client can send on /ws/chat
WsMessages ==
  { [kind |-> "notjson", api_key |-> <<>>, input |-> <<>>],
    [kind |-> "array", api_key |-> <<>>, input |-> <<>>] }
  \cup [kind : {"object"}, api_key : Keys, input : Inputs]

NoMessage == [kind |-> "none", api_key |-> <<>>, input |-> <<>>]

Event(type, payload) == [type |-> type, payload |-> payload]

\* str(e) of what json.loads or .get raises on a message
MessageError(m) ==
  IF m.kind = "notjson" THEN "Expecting value: line 1 column 1 (char 0)"
  ELSE "'list' object has no attribute 'get'"

IdleSession ==
  [phase |-> "idle", first |-> NoMessage, sent |-> <<>>, agent |-> FALSE,
   handled |-> 0, received |-> 0]

\* AGENT = None, no request yet, no socket; AGENT holds the number of the
\* build_agent call that made the object, 0 for None
UiIdle ==
  [ started |-> FALSE, AGENT |-> 0, builds |-> 0, runs |-> 0,
    chat |-> [req |-> NoRequest, code |-> 0],
    job |-> [c \in Chats |-> IdleJob],
    ws |-> IdleSession ]

\* startup_event: build_agent, which the resilient version lets fail
StartupEvent ==
  /\ ~ui.started
  /\ \E ok \in BOOLEAN :
       ui' = [ui EXCEPT !.started = TRUE,
                        !.AGENT = IF ok THEN ui.builds + 1 ELSE 0,
                        !.builds = @ + 1]
  /\ UNCHANGED <<back, ndjson>>

\* a chat that does not look at the key: C15 fails against it
ChatNoKeyCheck(q) ==
  /\ ui.started
  /\ IF q.kind # "object"
       THEN ui' = [ui EXCEPT !.chat = [req |-> q, code |-> 500]]
     ELSE IF UserInput(q) = ""
       THEN ui' = [ui EXCEPT !.chat = [req |-> q, code |-> 400]]
     ELSE \E c \in Chats :
            /\ ui.job[c].pc = "idle"
            /\ \A d \in Chats : d < c => ui.job[d].pc # "idle"
            /\ ui' = [ui EXCEPT !.chat = [req |-> q, code |-> 0],
                                !.job[c] = [pc |-> "check", user_input |-> UserInput(q), agent |-> 0]]
  /\ UNCHANGED <<back, ndjson>>

\* chat, up to loop.run_in_executor: 400 before 401, and only then a job for
\* the executor
Chat(q) ==
  /\ ui.started
  /\ IF q.kind # "object"
       THEN ui' = [ui EXCEPT !.chat = [req |-> q, code |-> 500]]
     ELSE IF UserInput(q) = ""
       THEN ui' = [ui EXCEPT !.chat = [req |-> q, code |-> 400]]
     ELSE IF ApiKey(q) # <<API_KEY>>
       THEN ui' = [ui EXCEPT !.chat = [req |-> q, code |-> 401]]
     ELSE \E c \in Chats :
            /\ ui.job[c].pc = "idle"
            /\ \A d \in Chats : d < c => ui.job[d].pc # "idle"
            /\ ui' = [ui EXCEPT !.chat = [req |-> q, code |-> 0],
                                !.job[c] = [pc |-> "check", user_input |-> UserInput(q), agent |-> 0]]
  /\ UNCHANGED <<back, ndjson>>

\* run_agent in an executor thread: if AGENT is None
JobCheck(c) ==
  /\ ui.job[c].pc = "check"
  /\ ui' = [ui EXCEPT !.job[c].pc = IF ui.AGENT = 0 THEN "build" ELSE "run"]
  /\ UNCHANGED <<back, ndjson>>

\* AGENT = build_agent()
JobBuild(c) ==
  /\ ui.job[c].pc = "build"
  /\ \E ok \in BOOLEAN :
       ui' = [ui EXCEPT !.builds = @ + 1,
                        !.AGENT = IF ok THEN ui.builds + 1 ELSE @,
                        !.job[c].pc = IF ok THEN "run" ELSE "error"]
  /\ UNCHANGED <<back, ndjson>>

\* AGENT.run(user_input), and the answer
JobRun(c) ==
  /\ ui.job[c].pc = "run"
  /\ ui' = [ui EXCEPT !.runs = @ + 1, !.job[c].pc = "done", !.job[c].agent = ui.AGENT]
  /\ UNCHANGED <<back, ndjson>>

\* ws.accept()
WsAccept ==
  /\ ui.started
  /\ ui.ws.phase = "idle"
  /\ ui' = [ui EXCEPT !.ws.phase = "accepted"]
  /\ UNCHANGED <<back, ndjson>>

\* a handshake that reports a bad key and keeps the session: C16 fails against it
WsHandshakeLenient(m) ==
  /\ ui.ws.phase = "accepted"
  /\ LET ws == [ui.ws EXCEPT !.first = m, !.received = 1] IN
     IF m.kind # "object"
       THEN ui' = [ui EXCEPT !.ws = [ws EXCEPT !.phase = "closed",
                                               !.sent = Append(@, Event("error", MessageError(m)))]]
     ELSE IF m.api_key # <<API_KEY>>
       THEN ui' = [ui EXCEPT !.ws = [ws EXCEPT !.phase = "open", !.agent = TRUE,
                                               !.sent = Append(@, Event("error", "unauthorized"))]]
     ELSE ui' = [ui EXCEPT !.ws = [ws EXCEPT !.phase = "open", !.agent = TRUE]]
  /\ UNCHANGED <<back, ndjson>>

\* the handshake: lines 258-300
WsHandshake(m) ==
  /\ ui.ws.phase = "accepted"
  /\ LET ws == [ui.ws EXCEPT !.first = m, !.received = 1] IN
     IF m.kind # "object"
       THEN ui' = [ui EXCEPT !.ws = [ws EXCEPT !.phase = "closed",
                                               !.sent = Append(@, Event("error", MessageError(m)))]]
     ELSE IF m.api_key # <<API_KEY>>
       THEN ui' = [ui EXCEPT !.ws = [ws EXCEPT !.phase = "closed",
                                               !.sent = Append(@, Event("error", "unauthorized"))]]
     ELSE \E ok \in BOOLEAN :
            IF ok
              THEN ui' = [ui EXCEPT !.ws = [ws EXCEPT !.phase = "open", !.agent = TRUE]]
              ELSE ui' = [ui EXCEPT !.ws = [ws EXCEPT !.phase = "closed",
                                                      !.sent = Append(@, Event("error", "agent build failed"))]]
  /\ UNCHANGED <<back, ndjson>>

\* one turn of the main loop: lines 303-320
WsTurn(m) ==
  /\ ui.ws.phase = "open"
  /\ ui.ws.received <= MaxMsgs
  /\ LET ws == [ui.ws EXCEPT !.received = @ + 1] IN
     IF m.kind # "object"
       THEN ui' = [ui EXCEPT !.ws = [ws EXCEPT !.phase = "closed",
                                               !.sent = Append(@, Event("error", MessageError(m)))]]
     ELSE IF m.input = <<>> \/ m.input[1] = ""
       THEN ui' = [ui EXCEPT !.ws = [ws EXCEPT !.sent = Append(@, Event("error", "missing input"))]]
     ELSE ui' = [ui EXCEPT !.ws = [ws EXCEPT !.handled = @ + 1,
                                             !.sent = Append(@, Event("result", m.input[1]))]]
  /\ UNCHANGED <<back, ndjson>>

\* the client goes away while the server waits in receive_text
WsDisconnect ==
  /\ ui.ws.phase \in {"accepted", "open"}
  /\ ui' = [ui EXCEPT !.ws.phase = "closed"]
  /\ UNCHANGED <<back, ndjson>>

(* ----------------------------- callers -------------------------------- *)

\* the slot of the next call: the lowest one not yet used
NextSlot(r) == run[r].pc = "idle" /\ \A q \in Runs : q < r => Started(q)

\* the runner threads of the service
Threads == 1..MaxThreads

\* the bodies a client can post to /run
Bodies ==
  { [kind |-> "notjson", agent_id |-> AbsentVal],
    [kind |-> "array", agent_id |-> AbsentVal] }
  \cup { [kind |-> "object", agent_id |-> v] :
           v \in {AbsentVal, Str(""), Num("5")} \cup {Str(i) : i \in Ids} }

\* a handler that starts the thread before it looks at agent_id: C7 fails
\* against it
PostRunUnchecked(body) ==
  IF body.kind = "array"
    THEN /\ resp' = [body |-> body, code |-> 500, status |-> "", agent_id |-> AbsentVal, thread |-> 0]
         /\ UNCHANGED <<store, run, config, front>>
  ELSE \E r \in Threads :
         /\ NextSlot(r)
         /\ run' = [run EXCEPT ![r].pc = "start", ![r].id = body.agent_id]
         /\ resp' = [body |-> body, code |-> IF Truthy(body.agent_id) THEN 202 ELSE 400,
                     status |-> IF Truthy(body.agent_id) THEN "started" ELSE "",
                     agent_id |-> body.agent_id, thread |-> r]
         /\ UNCHANGED <<store, config, front>>

\* a handler that turns a request away while a run is in flight: C8 fails
\* against it
PostRunOneAtATime(body) ==
  IF body.kind = "array"
    THEN /\ resp' = [body |-> body, code |-> 500, status |-> "", agent_id |-> AbsentVal, thread |-> 0]
         /\ UNCHANGED <<store, run, config, front>>
  ELSE IF ~Truthy(body.agent_id)
    THEN /\ resp' = [body |-> body, code |-> 400, status |-> "", agent_id |-> AbsentVal, thread |-> 0]
         /\ UNCHANGED <<store, run, config, front>>
  ELSE IF \E q \in Runs : Active(q)
    THEN /\ resp' = [body |-> body, code |-> 429, status |-> "", agent_id |-> AbsentVal, thread |-> 0]
         /\ UNCHANGED <<store, run, config, front>>
  ELSE \E r \in Threads :
         /\ NextSlot(r)
         /\ run' = [run EXCEPT ![r].pc = "start", ![r].id = body.agent_id]
         /\ resp' = [body |-> body, code |-> 202, status |-> "started", agent_id |-> body.agent_id, thread |-> r]
         /\ UNCHANGED <<store, config, front>>

\* server.py run_agent: 400 without a truthy agent_id, else a daemon thread and 202;
\* a JSON body that is no object has no .get and the framework answers 500
PostRun(body) ==
  IF body.kind = "array"
    THEN /\ resp' = [body |-> body, code |-> 500, status |-> "", agent_id |-> AbsentVal, thread |-> 0]
         /\ UNCHANGED <<store, run, config, front>>
  ELSE IF ~Truthy(body.agent_id)
    THEN /\ resp' = [body |-> body, code |-> 400, status |-> "", agent_id |-> AbsentVal, thread |-> 0]
         /\ UNCHANGED <<store, run, config, front>>
  ELSE \E r \in Threads :
         /\ NextSlot(r)
         /\ run' = [run EXCEPT ![r].pc = "start", ![r].id = body.agent_id]
         /\ resp' = [body |-> body, code |-> 202, status |-> "started", agent_id |-> body.agent_id, thread |-> r]
         /\ UNCHANGED <<store, config, front>>

\* a direct call of run_agent_background, by a worker or a test, once the
\* earlier calls are over
Invoke(v) ==
  /\ \A q \in Runs : Started(q) => Terminated(q)
  /\ \E r \in Runs :
       /\ NextSlot(r)
       /\ run' = [run EXCEPT ![r].pc = "start", ![r].id = v]
  /\ UNCHANGED <<store, config, resp, front>>

AgentIds == {Str(i) : i \in Ids} \cup {Num("5")}

(* ------------------------ reading a stream ---------------------------- *)

NoStream == [lines |-> <<>>, app |-> <<>>, llm |-> <<>>]

\* app.py call_ollama on a streamed answer
ReadApp ==
  /\ ndjson.app = <<>>
  /\ LET res == CallOllamaApp([kind |-> "ndjson", lines |-> ndjson.lines])
     IN ndjson' = [ndjson EXCEPT !.app = <<res.val[1].text>>]
  /\ UNCHANGED <<back, ui>>

\* OllamaLLM._call on a streamed answer
ReadLLM ==
  /\ ndjson.llm = <<>>
  /\ ndjson' = [ndjson EXCEPT !.llm = <<LLMCombined(ndjson.lines)>>]
  /\ UNCHANGED <<back, ui>>

(* -------------------------- specifications ---------------------------- *)

\* before the first request to /run
NoAnswer ==
  [body |-> [kind |-> "none", agent_id |-> AbsentVal], code |-> 0, status |-> "",
   agent_id |-> AbsentVal, thread |-> 0]

\* nothing streamed, the agent-ui backend not started
NoTrial == [dirs |-> {}, first |-> <<>>]

FrontIdle == ndjson = NoStream /\ ui = UiIdle /\ trial = NoTrial

\* the mail-assistant with no job and no request
BackIdle ==
  /\ dirs = {}
  /\ inputFile = [j \in Ids |-> NoFile]
  /\ stateFile = [j \in Ids |-> <<>>]
  /\ outputFile = [j \in Ids |-> <<>>]
  /\ logFile = [j \in Ids |-> <<>>]
  /\ run = [r \in Runs |-> IdleRun]
  /\ resp = NoAnswer
  /\ impl = "app"
  /\ faultArmed = FALSE
  /\ world = [flow |-> {}, llm |-> {}, adapter |-> {}]

\* the input.json of the job the service runs
ServiceInputs ==
  { NoFile, PromptOnly,
    Payload(<<"summarise">>, <<>>, <<"f1">>, ToolAbsent),
    Payload(<<"summarise">>, <<>>, <<>>, Tool("mailer")),
    Payload(<<"summarise">>, <<>>, <<>>, Tool("nope")) }

\* under the service each external party either answers well or fails
ServiceWorld ==
  [ flow |-> {x \in FlowReplies : x.val \in {FlowObj("answer", "42"), FlowNull}},
    llm |-> {x \in LlmReplies : x.kind \in {"http_error", "ndjson"}},
    adapter |-> {x \in AdapterOutcomes : x.kind = "timeout" \/ (x.kind = "exit" /\ x.rc = 0)} ]

\* a client has prepared at most one job, with an input.json of contents; nothing
\* has run yet
InitStore(contents) ==
  /\ \E i \in Ids : \E c \in contents :
       /\ inputFile = [j \in Ids |-> IF j = i THEN c ELSE NoFile]
       /\ dirs \in (IF c = NoFile THEN {{}, {i}} ELSE {{i}})
  /\ stateFile = [j \in Ids |-> <<>>]
  /\ outputFile = [j \in Ids |-> <<>>]
  /\ logFile = [j \in Ids |-> <<>>]
  /\ run = [r \in Runs |-> IdleRun]
  /\ resp = NoAnswer

\* the service: server.py imports run_agent_background from app.py
Init ==
  /\ InitStore(ServiceInputs)
  /\ FrontIdle
  /\ impl = "app"
  /\ faultArmed = FALSE
  /\ world = ServiceWorld

Next ==
  \/ \E body \in Bodies : PostRun(body)
  \/ \E r \in Runs : RunStep(r)

Spec == Init /\ [][Next]_vars

\* a started thread keeps running: the interpreter schedules every runner thread
\* and each external call returns, raises or times out
Fairness == \A r \in Runs : WF_vars(RunStep(r))

SpecLive == Spec /\ Fairness

\* run_agent_background called directly, one call at a time, in either
\* implementation, on a file system that may refuse one write
InitSeq ==
  /\ InitStore(InputContents)
  /\ FrontIdle
  /\ impl \in {"app", "tasks"}
  /\ faultArmed = TRUE
  /\ world = [flow |-> FlowReplies, llm |-> LlmReplies, adapter |-> AdapterOutcomes]

NextSeq ==
  \/ \E v \in AgentIds : Invoke(v)
  \/ \E r \in Runs : RunStep(r)

SpecSeq == InitSeq /\ [][NextSeq]_vars

\* what a call left behind: the status in state.json, whether output.json
\* exists, and whether the caller saw a return or an exception
ResultOf(r) ==
  LET named == run[r].id.t = "str" /\ run[r].id.s \in Ids
      st == IF named THEN stateFile[run[r].id.s] ELSE <<>>
  IN [ status |-> IF st = <<>> THEN "absent" ELSE st[1].status,
       output |-> named /\ outputFile[run[r].id.s] # <<>>,
       caller |-> run[r].pc ]

\* each external party has one outcome, the same for both implementations
Outcomes ==
  { [flow |-> {f}, llm |-> {l}, adapter |-> {a}] :
      f \in FlowReplies, l \in LlmReplies, a \in AdapterOutcomes }

\* one job, first given to app.py, then from the same beginning to tasks.py
InitEquiv ==
  /\ InitStore(InputContents)
  /\ ndjson = NoStream /\ ui = UiIdle
  /\ impl = "app"
  /\ faultArmed = FALSE
  /\ world \in Outcomes
  /\ trial = [dirs |-> dirs, first |-> <<>>]

\* the call of the implementation whose turn it is, with the agent_id of the first
InvokeOnce(v) ==
  /\ \/ impl = "app" /\ \A r \in Runs : ~Started(r)
     \/ impl = "tasks" /\ Cardinality({r \in Runs : Started(r)}) = 1 /\ run[1].id = v
  /\ Invoke(v)

\* app.py is through: note what it left, put the job store back as it began
\* and hand the job to tasks.py
SwitchToTasks ==
  /\ impl = "app"
  /\ Terminated(1)
  /\ trial' = [trial EXCEPT !.first = <<ResultOf(1)>>]
  /\ impl' = "tasks"
  /\ dirs' = trial.dirs
  /\ stateFile' = [j \in Ids |-> <<>>]
  /\ outputFile' = [j \in Ids |-> <<>>]
  /\ logFile' = [j \in Ids |-> <<>>]
  /\ UNCHANGED <<inputFile, run, faultArmed, world, resp, ndjson, ui>>

NextEquiv ==
  \/ \E v \in AgentIds : InvokeOnce(v)
  \/ \E r \in Runs : RunStep(r)
  \/ SwitchToTasks

SpecEquiv == InitEquiv /\ [][NextEquiv]_vars

\* the two readers of a streamed answer, each applied to every body
InitText ==
  /\ BackIdle
  /\ ui = UiIdle
  /\ trial = NoTrial
  /\ \E b \in NdBodies : ndjson = [lines |-> b, app |-> <<>>, llm |-> <<>>]

NextText == ReadApp \/ ReadLLM

SpecText == InitText /\ [][NextText]_vars

\* the agent-ui backend serving POST /chat
InitChat ==
  /\ BackIdle
  /\ FrontIdle

NextChat ==
  \/ StartupEvent
  \/ \E q \in ChatRequests : Chat(q)
  \/ \E c \in Chats : JobCheck(c) \/ JobBuild(c) \/ JobRun(c)

SpecChat == InitChat /\ [][NextChat]_vars

\* the agent-ui backend serving one /ws/chat session
InitWs ==
  /\ BackIdle
  /\ FrontIdle

NextWs ==
  \/ StartupEvent
  \/ WsAccept
  \/ \E m \in WsMessages : WsHandshake(m) \/ WsTurn(m)
  \/ WsDisconnect

SpecWs == InitWs /\ [][NextWs]_vars

(* ------------------------------ claims -------------------------------- *)

\* the last call started: in SpecSeq no other call has written since it began
Latest(r) == Started(r) /\ \A q \in Runs : q > r => ~Started(q)

\* a call on a job directory, over, and the last one started
Settled(r) == Latest(r) /\ Terminated(r) /\ run[r].id.t = "str"

StateOf(r) == stateFile[JobOf(r)]
OutputOf(r) == outputFile[JobOf(r)]
InputOf(r) == inputFile[JobOf(r)]

\* C1: a run on an input.json that holds only a prompt, once it has returned,
\* leaves its own output.json with a non-null model_response and state.json
\* with status "completed"
C1_PromptOnlyCompleted ==
  \A r \in Runs :
    (Settled(r) /\ run[r].pc = "returned" /\ OnlyPrompt(InputOf(r))) =>
      /\ OutputOf(r) # <<>>
      /\ OutputOf(r)[1].by = r
      /\ OutputOf(r)[1].model_response # <<>>
      /\ StateOf(r) = <<Completed(r)>>

C1_Witness ==
  \E r \in Runs : Settled(r) /\ run[r].pc = "returned" /\ OnlyPrompt(InputOf(r))

\* C2: a run on a job without input.json, whose writes the operating system
\* did not refuse, fails and leaves state.json with status "failed" and a
\* non-empty error
C2_MissingInputFailed ==
  \A r \in Runs :
    (Settled(r) /\ InputOf(r) = NoFile /\ ~run[r].faulted) =>
      /\ run[r].pc = "raised"
      /\ StateOf(r) # <<>>
      /\ StateOf(r)[1].status = "failed"
      /\ StateOf(r)[1].error # <<>>
      /\ StateOf(r)[1].error[1] # ""

\* the part of C2 that app.py keeps: with agent_logging.py the directory is made
\* on the first write
C2_Witness ==
  \E r \in Runs :
    /\ Settled(r) /\ InputOf(r) = NoFile /\ impl = "app"
    /\ StateOf(r) = <<Failed(r, "input.json missing for agent " \o JobOf(r))>>

\* the tool field of input.json is absent or an object
ToolWellFormed(p) == p.kind = "object" /\ p.tool.t # "str"

\* C3: a raise of the workflow call is never the exception that ends the run:
\* when the LLM call succeeds and no write is refused the run returns, and a
\* run that returned left status "completed" and flowise = {"error": message}
C3_FlowFailureRecorded ==
  \A r \in Runs :
    (Settled(r) /\ run[r].flow_exc # NoExc) =>
      /\ HasFlowId(InputOf(r))
      /\ run[r].e # run[r].flow_exc
      /\ (run[r].calls.llm = 1 /\ run[r].llm_exc = NoExc /\ ~run[r].faulted
            /\ ToolWellFormed(InputOf(r)))
           => run[r].pc = "returned"
      /\ run[r].pc = "returned" =>
           /\ StateOf(r) = <<Completed(r)>>
           /\ OutputOf(r) # <<>>
           /\ OutputOf(r)[1].by = r
           /\ OutputOf(r)[1].flowise = FlowObj("error", run[r].flow_exc.msg)

C3_Witness ==
  \E r \in Runs :
    /\ Settled(r) /\ run[r].flow_exc # NoExc /\ run[r].pc = "returned"
    /\ OutputOf(r)[1].flowise = FlowObj("error", "500 Server Error for url: /api/v1/flows/run")

\* input.json names an adapter that is not under /app/tools
AdapterMissing(p) ==
  /\ p.kind = "object" /\ p.tool.t = "obj"
  /\ p.tool.name # <<>> /\ p.tool.name[1] \notin InstalledAdapters

\* C4: with a tool.name whose adapter does not exist, a run whose LLM call
\* succeeded and whose writes were not refused returns, and a run that returned
\* left adapter_error set, no adapter_result, and status "completed"
C4_MissingAdapterCompleted ==
  \A r \in Runs :
    (Settled(r) /\ AdapterMissing(InputOf(r))) =>
      /\ (run[r].calls.llm = 1 /\ run[r].llm_exc = NoExc /\ ~run[r].faulted)
           => run[r].pc = "returned"
      /\ run[r].pc = "returned" =>
           /\ run[r].calls.adapter = 1
           /\ StateOf(r) = <<Completed(r)>>
           /\ OutputOf(r) # <<>>
           /\ OutputOf(r)[1].by = r
           /\ OutputOf(r)[1].adapter_error # <<>>
           /\ OutputOf(r)[1].adapter_result = <<>>

C4_Witness ==
  \E r \in Runs :
    /\ Settled(r) /\ AdapterMissing(InputOf(r)) /\ run[r].pc = "returned"
    /\ OutputOf(r)[1].adapter_error = <<"Adapter not found: nope">>

\* C5: once the LLM call of a run has failed, the run goes to its handler: it has
\* not called and never calls run_tool_adapter, output.json is not its own, and
\* when it is over it has raised the LLM exception and, unless a write was
\* refused, left status "failed" with the exception's message
C5_LlmFailureFatal ==
  \A r \in Runs :
    (Latest(r) /\ run[r].llm_exc # NoExc) =>
      /\ run[r].pc \in {"h_state", "h_log", "raised"}
      /\ run[r].e = run[r].llm_exc
      /\ run[r].calls.adapter = 0
      /\ OutputOf(r) = <<>> \/ OutputOf(r)[1].by # r
      /\ (run[r].pc = "raised" /\ ~run[r].faulted) =>
           /\ run[r].raised = run[r].llm_exc
           /\ StateOf(r) = <<Failed(r, run[r].llm_exc.msg)>>

C5_Witness ==
  \E r \in Runs :
    /\ Latest(r) /\ run[r].llm_exc # NoExc /\ run[r].pc = "raised"
    /\ StateOf(r) = <<Failed(r, run[r].llm_exc.msg)>>
    /\ AdapterMissing(InputOf(r))

\* C6: every run that raises has marked its job "failed" with the message of
\* the exception it raises, which is the one its handler caught
C6_EveryFailureMarked ==
  \A r \in Runs :
    (Latest(r) /\ run[r].pc = "raised") =>
      /\ run[r].id.t = "str"
      /\ run[r].raised = run[r].e
      /\ StateOf(r) = <<Failed(r, run[r].raised.msg)>>

\* the bodies of /run that carry an agent_id
StartBodies == {b \in Bodies : b.kind = "object" /\ Truthy(b.agent_id)}

\* the bodies of /run without one: agent_id absent, empty, or no JSON at all
MissingIdBodies ==
  {b \in Bodies : b.kind = "notjson" \/ (b.kind = "object" /\ b.agent_id \in {AbsentVal, Str("")})}

\* a step that answers a request: to a body with an agent_id, 202 with
\* {"status": "started", "agent_id": <the id>} and exactly one runner thread
\* started for that id, nothing else touched; to a body without one, 400 with no
\* runner started and no file and no run changed
C7_Step ==
  LET new == {r \in Runs : run[r].pc = "idle" /\ run'[r].pc # "idle"}
      b == resp'.body
  IN (resp' # resp \/ new # {}) =>
       /\ b \in StartBodies =>
            /\ resp'.code = 202
            /\ resp'.status = "started"
            /\ resp'.agent_id = b.agent_id
            /\ Cardinality(new) = 1
            /\ \A r \in new : run'[r] = [run[r] EXCEPT !.pc = "start", !.id = b.agent_id]
            /\ \A r \in Runs \ new : run'[r] = run[r]
            /\ store' = store
       /\ b \in MissingIdBodies =>
            /\ resp'.code = 400
            /\ new = {}
            /\ run' = run
            /\ store' = store

\* C7: every answer of POST /run is as C7_Step says
C7_RunEndpoint == [][C7_Step]_vars

\* a 400 given after a request with an agent_id has started its runner
C7_Witness ==
  /\ resp.code = 400
  /\ resp.body \in MissingIdBodies
  /\ Cardinality({r \in Runs : Started(r)}) = 1
  /\ \E r \in Runs : Active(r)

\* C8: whatever the runs in flight are doing, a request with an agent_id is
\* answered 202 at once: the answer is a single step that touches no file and
\* leaves the new runner before its first line, however many runs are active
C8_AcceptedWithoutWaiting ==
  \A b \in StartBodies :
    (\E r \in Threads : NextSlot(r)) =>
      ENABLED ( /\ PostRun(b)
                /\ resp'.code = 202
                /\ store' = store
                /\ run'[resp'.thread].pc = "start" )

\* a 202 given while another run is in flight and state.json says "running"
C8_Witness ==
  /\ resp.code = 202
  /\ resp.thread = 2
  /\ run[2].pc = "start"
  /\ Active(1)
  /\ run[1].id.t = "str"
  /\ run[1].id = run[2].id
  /\ StateOf(1) = <<Running(1)>>

\* C9: no run ever waits for another: a run that is not over can always take
\* its next step, whatever the other run of the same job is doing
C9_NoMutualExclusion ==
  \A r \in Runs : Active(r) => ENABLED RunStep(r)

\* both runs of one job returned, state.json left by the first and output.json
\* by the second: the second wrote output.json while the first was between its
\* output write and its last state write
C9_Witness ==
  /\ run[1].pc = "returned" /\ run[2].pc = "returned"
  /\ run[1].id = run[2].id
  /\ StateOf(1) = <<Completed(1)>>
  /\ OutputOf(1) # <<>>
  /\ OutputOf(1)[1].by = 2

\* a call q that was over before the call r on the same job began
Earlier(q, r) == q < r /\ Terminated(q) /\ run[q].id = run[r].id

\* C10 as stated: after a later run on the same job, with none of its writes
\* refused, state.json and output.json hold nothing of an earlier run
C10_OnlyLaterRun ==
  \A q, r \in Runs :
    (Earlier(q, r) /\ Settled(r) /\ ~run[r].faulted) =>
      /\ StateOf(r) = <<>> \/ StateOf(r)[1].by = r
      /\ OutputOf(r) = <<>> \/ OutputOf(r)[1].by = r

\* C10: a later run that returned leaves its own state.json and output.json; a
\* later run that raised, with no write refused and the job directory there,
\* leaves its own "failed" state.json and has written no output.json
C10_LaterRunOverwrites ==
  \A q, r \in Runs :
    (Earlier(q, r) /\ Settled(r)) =>
      /\ run[r].pc = "returned" =>
           /\ StateOf(r) = <<Completed(r)>>
           /\ OutputOf(r) # <<>>
           /\ OutputOf(r)[1].by = r
      /\ (run[r].pc = "raised" /\ ~run[r].faulted) =>
           /\ CanWrite(JobOf(r)) => StateOf(r) = <<Failed(r, run[r].raised.msg)>>
           /\ OutputOf(r) = <<>> \/ OutputOf(r)[1].by # r

\* the later run failed and output.json is still the earlier run's
C10_Witness ==
  \E q, r \in Runs :
    /\ Earlier(q, r) /\ Settled(r) /\ ~run[r].faulted
    /\ run[r].pc = "raised"
    /\ StateOf(r) = <<Failed(r, run[r].raised.msg)>>
    /\ OutputOf(r) # <<>>
    /\ OutputOf(r)[1].by = q

\* the string-valued response fields of the lines, joined in order
RECURSIVE ResponseText(_)
ResponseText(lines) ==
  IF lines = <<>> THEN ""
  ELSE (IF Head(lines).t = "chunk" THEN Head(lines).v ELSE "") \o ResponseText(Tail(lines))

\* every line is blank or a JSON object with "response" or without it
IsNdjson(lines) == \A k \in 1..Len(lines) : lines[k].t \in {"blank", "chunk", "nochunk"}

\* C11: for every NDJSON body the text each reader returns is the string-valued
\* response fields of its lines joined in order; blank lines and objects without
\* a non-empty string response add nothing
C11_CombinedText ==
  IsNdjson(ndjson.lines) =>
    /\ ndjson.app # <<>> => ndjson.app[1] = ResponseText(ndjson.lines)
    /\ ndjson.llm # <<>> => ndjson.llm[1] = ResponseText(ndjson.lines)

\* {"response":"Hel"} then {"response":"lo"} is "Hello" for both readers
C11_Witness ==
  /\ ndjson.lines = <<Chunk("Hel"), Chunk("lo")>>
  /\ ndjson.app = <<"Hello">>
  /\ ndjson.llm = <<"Hello">>

\* a state.json value as the contract describes it
StateValueOk(v) ==
  /\ v.status \in {"running", "completed", "failed"}
  /\ v.progress = (IF v.status = "completed" THEN 100 ELSE 0)
  /\ (v.error # <<>>) <=> (v.status = "failed")

\* C12: whatever state.json holds was written with status running, completed or
\* failed, progress 100 exactly for completed and 0 otherwise, and an error
\* field exactly for failed
C12_StateValues ==
  \A i \in Ids : stateFile[i] # <<>> => StateValueOk(stateFile[i][1])

\* all three values have been written in one behaviour: the second run failed
\* after the first had completed
C12_Witness ==
  /\ Terminated(1) /\ Started(2)
  /\ \E i \in Ids :
       /\ stateFile[i] # <<>>
       /\ stateFile[i][1].status = "failed"
       /\ stateFile[i][1].by = 2
       /\ outputFile[i] # <<>>

\* s is the beginning of t
IsPrefix(s, t) == Len(s) <= Len(t) /\ SubSeq(t, 1, Len(s)) = s

\* C13: in every step, whichever run takes it, the lines log.txt held before are
\* the beginning of the lines it holds after
C13_LogAppendOnly ==
  [][\A i \in Ids : IsPrefix(logFile[i], logFile'[i])]_vars

\* two runs of one job in flight, both past their first line, the log holding
\* the lines of both
C13_Witness ==
  /\ Active(1) /\ Active(2)
  /\ run[1].id.t = "str" /\ run[1].id = run[2].id
  /\ LET log == logFile[JobOf(1)]
     IN /\ Len(log) >= 4
        /\ Cardinality({k \in 1..Len(log) : log[k] = "Agent started"}) = 2

\* C14: a run calls the workflow engine, the LLM endpoint and run_tool_adapter at
\* most once each; a call that raised was the only one of its kind, and after a
\* raise of the LLM call run_tool_adapter is not called at all
C14_NoRetries ==
  \A r \in Runs :
    /\ run[r].calls.flow <= 1
    /\ run[r].calls.llm <= 1
    /\ run[r].calls.adapter <= 1
    /\ run[r].flow_exc # NoExc => run[r].calls.flow = 1
    /\ run[r].llm_exc # NoExc => run[r].calls.llm = 1 /\ run[r].calls.adapter = 0

\* a run that called all three once although the workflow call and the adapter
\* failed
C14_Witness ==
  \E r \in Runs :
    /\ Settled(r) /\ run[r].pc = "returned"
    /\ run[r].calls = [flow |-> 1, llm |-> 1, adapter |-> 1]
    /\ run[r].flow_exc # NoExc
    /\ OutputOf(r)[1].adapter_error # <<>>

\* the request carries API_KEY in its x-api-key or its api-key header
HasKey(q) == q.xkey = <<API_KEY>> \/ q.key = <<API_KEY>>

\* what the request handlers of /chat can change of the agent
AgentSide == <<ui.AGENT, ui.builds, ui.runs, ui.job>>

\* a step of /chat: a request without input is answered 400 whatever its key, one
\* with input and without the key 401, both leaving AGENT, the builds, the runs
\* and the executor as they were; a job reaches the executor only from a request
\* with input and key; and after startup build_agent and AGENT.run happen only in
\* such a job
C15_Step ==
  LET q == ui'.chat.req
      new == {c \in Chats : ui.job[c].pc = "idle" /\ ui'.job[c].pc # "idle"}
  IN /\ (ui'.chat # ui.chat \/ new # {}) =>
          /\ (q.kind = "object" /\ UserInput(q) = "") =>
               ui'.chat.code = 400 /\ AgentSide' = AgentSide
          /\ (q.kind = "object" /\ UserInput(q) # "" /\ ~HasKey(q)) =>
               ui'.chat.code = 401 /\ AgentSide' = AgentSide
          /\ new # {} =>
               /\ UserInput(q) # "" /\ HasKey(q)
               /\ \A c \in new : ui'.job[c].user_input = UserInput(q)
     /\ (ui.started /\ (ui'.builds # ui.builds \/ ui'.runs # ui.runs)) =>
          \E c \in Chats : ui.job[c].pc \in {"build", "run"} /\ ui.job[c].user_input # ""

\* C15: every step of the agent-ui backend serving /chat is as C15_Step says
C15_ChatGuard == [][C15_Step]_vars

\* a request with input and a wrong key turned away with 401 after an earlier
\* request had run the agent
C15_Witness ==
  /\ ui.chat.code = 401
  /\ ui.chat.req.input = <<"hi">>
  /\ ui.chat.req.xkey = <<"wrong">>
  /\ ui.runs = 1

\* the first message of the session was a JSON object with api_key = API_KEY
Authorized ==
  /\ ui.ws.first.kind = "object"
  /\ ui.ws.first.api_key = <<API_KEY>>

\* C16 as stated: the session agent is built and an input handled only after an
\* authorized first message; any other first message leaves exactly the one
\* event {"type":"error","payload":"unauthorized"} and a closed socket
C16_Unauthorized ==
  /\ (ui.ws.agent \/ ui.ws.handled > 0) => Authorized
  /\ (ui.ws.received >= 1 /\ ~Authorized) =>
       /\ ui.ws.sent = <<Event("error", "unauthorized")>>
       /\ ui.ws.phase = "closed"
       /\ ui.ws.handled = 0

\* C16: the session agent is built, the session open and an input handled only
\* after an authorized first message; any other first message is the only one
\* received, leaves a closed socket and exactly one error event, whose payload
\* is "unauthorized" exactly when the message was a JSON object
C16_HandshakeGuard ==
  /\ (ui.ws.agent \/ ui.ws.handled > 0 \/ ui.ws.phase = "open") => Authorized
  /\ (ui.ws.received >= 1 /\ ~Authorized) =>
       /\ ui.ws.phase = "closed"
       /\ ui.ws.received = 1
       /\ ui.ws.handled = 0
       /\ ~ui.ws.agent
       /\ Len(ui.ws.sent) = 1
       /\ ui.ws.sent[1].type = "error"
       /\ (ui.ws.sent[1].payload = "unauthorized") <=> (ui.ws.first.kind = "object")

\* a first message with a wrong key and an input: one unauthorized event, the
\* socket closed, the input not handled
C16_Witness ==
  /\ ui.ws.first = [kind |-> "object", api_key |-> <<"wrong">>, input |-> <<"hi">>]
  /\ ui.ws.sent = <<Event("error", "unauthorized")>>
  /\ ui.ws.phase = "closed"
  /\ ui.ws.handled = 0

\* the prompt field, else the task field, else "No task provided"
TaskOf(p) ==
  IF p.prompt # <<>> /\ p.prompt[1] # "" THEN p.prompt[1]
  ELSE IF p.task # <<>> /\ p.task[1] # "" THEN p.task[1]
  ELSE "No task provided"

WroteState(r) == StateOf(r) # <<>> /\ StateOf(r)[1].by = r
WroteOutput(r) == OutputOf(r) # <<>> /\ OutputOf(r)[1].by = r
HasTool(p) == p.kind = "object" /\ ToolRequested(p.tool)

\* C18: in the latest run each step has all the earlier steps behind it: input.json
\* is read after the "running" write; the workflow engine is called after the
\* read and only for an input with a flow_id; the LLM is called after the
\* workflow call when there is a flow_id; run_tool_adapter is called after the
\* LLM returned and only for an input with a tool; output.json is written after
\* the LLM returned and after the adapter exactly when there is a tool; the
\* "completed" state is written after output.json; and the run returns after that
C18_StepOrder ==
  \A r \in Runs :
    (Latest(r) /\ run[r].id.t = "str") =>
      /\ (Active(r) /\ run[r].payload.kind = "object") =>
           WroteState(r) /\ run[r].payload = InputOf(r)
      /\ run[r].calls.flow = 1 => WroteState(r) /\ HasFlowId(InputOf(r))
      /\ run[r].calls.llm = 1 =>
           /\ WroteState(r) /\ InputOf(r).kind = "object"
           /\ HasFlowId(InputOf(r)) => run[r].calls.flow = 1
      /\ run[r].calls.adapter = 1 =>
           /\ run[r].calls.llm = 1 /\ run[r].llm_exc = NoExc
           /\ HasTool(InputOf(r))
           /\ ~WroteOutput(r) \/ run[r].pc \in {"state_completed", "log_completed", "h_state", "h_log", "returned", "raised"}
      /\ WroteOutput(r) =>
           /\ run[r].calls.llm = 1 /\ run[r].llm_exc = NoExc
           /\ HasFlowId(InputOf(r)) <=> run[r].calls.flow = 1
           /\ HasTool(InputOf(r)) <=> run[r].calls.adapter = 1
      /\ (WroteState(r) /\ StateOf(r)[1].status = "completed") => WroteOutput(r)
      /\ run[r].pc = "returned" => StateOf(r) = <<Completed(r)>>

\* a run with a flow_id and a tool that went through every step and returned
C18_Witness ==
  \E r \in Runs :
    /\ Settled(r) /\ run[r].pc = "returned"
    /\ HasFlowId(InputOf(r)) /\ HasTool(InputOf(r))
    /\ run[r].calls = [flow |-> 1, llm |-> 1, adapter |-> 1]
    /\ WroteOutput(r)
    /\ StateOf(r) = <<Completed(r)>>

\* the LLM call of a settled run returned
LlmSucceeded(r) == Settled(r) /\ run[r].calls.llm = 1 /\ run[r].llm_exc = NoExc

\* the tool field of input.json is a JSON object, {} included
HasToolObject(p) == p.kind = "object" /\ p.tool.t \in {"obj", "emptyobj"}

\* the adapter keys of the output.json a run wrote
KeysOf(r) ==
  {k \in {"adapter_result", "adapter_error"} :
     IF k = "adapter_result" THEN OutputOf(r)[1].adapter_result # <<>>
                             ELSE OutputOf(r)[1].adapter_error # <<>>}

\* C19: a run whose LLM call succeeded and whose input.json has a tool object
\* returns unless a write was refused, and a run that returned wrote an
\* output.json with exactly one of adapter_result and adapter_error
C19_ExactlyOneKey ==
  \A r \in Runs :
    (LlmSucceeded(r) /\ HasToolObject(InputOf(r))) =>
      /\ ~run[r].faulted => run[r].pc = "returned"
      /\ run[r].pc = "returned" =>
           /\ StateOf(r) = <<Completed(r)>>
           /\ WroteOutput(r)
           /\ Cardinality(KeysOf(r)) = 1

\* C19: a run whose LLM call succeeded and whose tool is a non-empty object
\* returns unless a write was refused; a run that returned has called the
\* adapter once, left status "completed" and at least one of the two keys, both
\* only after a refused write; adapter_result is the return code, stdout and
\* stderr of an installed adapter that exited, with 0 or not; a tool without a
\* name or without an installed adapter leaves adapter_error alone; and a run
\* that returned for an input without a tool, {} included, has neither key
C19_AdapterOutcome ==
  \A r \in Runs :
    /\ (LlmSucceeded(r) /\ InputOf(r).kind = "object" /\ InputOf(r).tool.t = "obj") =>
         /\ ~run[r].faulted => run[r].pc = "returned"
         /\ run[r].pc = "returned" =>
              /\ run[r].calls.adapter = 1
              /\ StateOf(r) = <<Completed(r)>>
              /\ WroteOutput(r)
              /\ KeysOf(r) # {}
              /\ Cardinality(KeysOf(r)) = 2 => run[r].faulted
              /\ "adapter_result" \in KeysOf(r) =>
                   /\ InputOf(r).tool.name # <<>>
                   /\ InputOf(r).tool.name[1] \in InstalledAdapters
                   /\ OutputOf(r)[1].adapter_result[1] \in {AdapterResult(0), AdapterResult(1)}
              /\ (InputOf(r).tool.name = <<>> \/ InputOf(r).tool.name[1] \notin InstalledAdapters)
                   => KeysOf(r) = {"adapter_error"}
    /\ (Settled(r) /\ run[r].pc = "returned" /\ ~HasTool(InputOf(r))) =>
         /\ run[r].calls.adapter = 0
         /\ WroteOutput(r)
         /\ KeysOf(r) = {}

\* an installed adapter exited with a non-zero return code and the job completed
\* with adapter_result alone
C19_Witness ==
  \E r \in Runs :
    /\ LlmSucceeded(r) /\ run[r].pc = "returned" /\ ~run[r].faulted
    /\ InputOf(r).tool = Tool("mailer")
    /\ StateOf(r) = <<Completed(r)>>
    /\ OutputOf(r)[1].adapter_result = <<AdapterResult(1)>>
    /\ KeysOf(r) = {"adapter_result"}

\* the two ways a completed job misses "exactly one": {} as the tool, and a
\* refused append of the "Adapter finished" line
C19_EmptyToolCompleted ==
  \E r \in Runs :
    /\ LlmSucceeded(r) /\ run[r].pc = "returned" /\ ~run[r].faulted
    /\ InputOf(r).tool = ToolEmpty /\ KeysOf(r) = {}

C19_BothKeys ==
  \E r \in Runs :
    /\ LlmSucceeded(r) /\ run[r].pc = "returned"
    /\ StateOf(r) = <<Completed(r)>> /\ Cardinality(KeysOf(r)) = 2

\* C20: whenever state.json of a job says "completed", output.json of that job
\* exists, and a run that is about to write the completed state, or has written
\* it, has output.json behind it
C20_CompletedHasOutput ==
  /\ \A i \in Ids :
       (stateFile[i] # <<>> /\ stateFile[i][1].status = "completed") => outputFile[i] # <<>>
  /\ \A r \in Runs :
       (Started(r) /\ run[r].id.t = "str" /\ run[r].pc \in {"state_completed", "log_completed", "returned"})
         => outputFile[JobOf(r)] # <<>>

\* two runs of one job have both written: state.json is the completed state of
\* one and output.json the output of the other
C20_Witness ==
  \E q, r \in Runs :
    /\ q # r /\ run[q].id = run[r].id /\ run[r].id.t = "str"
    /\ StateOf(r) = <<Completed(r)>>
    /\ OutputOf(r) # <<>> /\ OutputOf(r)[1].by = q

\* a step in which a run writes state.json over a value it wrote itself
\* replaces "running" by "completed" or "failed"
C21_Step ==
  \A i \in Ids :
    (/\ stateFile[i] # <<>> /\ stateFile'[i] # <<>>
     /\ stateFile'[i] # stateFile[i]
     /\ stateFile'[i][1].by = stateFile[i][1].by) =>
      /\ stateFile[i][1].status = "running"
      /\ stateFile'[i][1].status \in {"completed", "failed"}

\* C21: within one run the status written to state.json moves only from
\* "running" to one terminal value: no run writes "failed" after "completed",
\* and none writes "running" after a terminal status
C21_StatusMovesOnce == [][C21_Step]_vars

\* a run wrote output.json and "completed", and then "failed" over it because
\* its last log append was refused
C21_Witness ==
  \E r \in Runs :
    /\ Settled(r) /\ run[r].pc = "raised"
    /\ WroteOutput(r)
    /\ StateOf(r) = <<Failed(r, IoErr("log.txt").msg)>>

\* the agent_id values of the runs started so far, and the runs of one value
StartedIds == {run[r].id : r \in {q \in Runs : Started(q)}}
RunsOf(v) == {r \in Runs : Started(r) /\ run[r].id = v}

\* state.json of the job an agent_id names, <<>> when there is none
StateJson(v) == IF v.t = "str" /\ v.s \in Ids THEN stateFile[v.s] ELSE <<>>

\* C22, first half: every run started through POST /run terminates
C22_Terminates == \A r \in Runs : Started(r) ~> Terminated(r)

\* C22, second half: once all the runs started for an agent_id are over,
\* state.json of that id exists and holds "completed" or "failed"
C22_TerminalState ==
  \A v \in StartedIds :
    (\A r \in RunsOf(v) : Terminated(r)) =>
      /\ StateJson(v) # <<>>
      /\ StateJson(v)[1].status \in {"completed", "failed"}

\* the same for the ids that are strings
C22_TerminalStateOfStrings ==
  \A v \in StartedIds :
    (v.t = "str" /\ \A r \in RunsOf(v) : Terminated(r)) =>
      /\ StateJson(v) # <<>>
      /\ StateJson(v)[1].status \in {"completed", "failed"}

\* two runs of one job are over, one completed and one failed, and state.json
\* holds a terminal status
C22_Witness ==
  \E q, r \in Runs :
    /\ q # r /\ run[q].id = run[r].id /\ run[r].id.t = "str"
    /\ run[q].pc = "returned" /\ run[r].pc = "raised"
    /\ StateJson(run[r].id) # <<>>
    /\ StateJson(run[r].id)[1].status \in {"completed", "failed"}

\* a run started by POST /run with agent_id 5 is over and has left no state.json
C22_NoStateWritten ==
  \E r \in Runs :
    /\ run[r].id = Num("5") /\ run[r].pc = "raised"
    /\ resp.code = 202
    /\ \A i \in Ids : stateFile[i] = <<>>

\* the /chat requests whose AGENT.run has been called
Served == {c \in Chats : ui.job[c].pc = "done"}

\* C23: AGENT is a singleton: after the build_agent call of startup there is at
\* most one more, and every /chat request runs on the same agent object
C23_Singleton ==
  ui.started =>
    /\ ui.builds <= 2
    /\ \A c, d \in Served : ui.job[c].agent = ui.job[d].agent

\* when startup has built the agent no request builds another, and every
\* request runs on that object
C23_BuiltAtStartup ==
  ui.AGENT = 1 =>
    /\ ui.builds = 1
    /\ \A c \in Served : ui.job[c].agent = 1

\* startup failed, two requests both found AGENT None and both built an agent:
\* three build_agent calls, and the two requests ran on different objects
C23_Witness ==
  /\ ui.started /\ ui.builds = 3
  /\ Served = {1, 2}
  /\ ui.job[1].agent # ui.job[2].agent

\* both implementations have had the job and the second is over
BothDone == impl = "tasks" /\ trial.first # <<>> /\ run[2].pc \in {"returned", "raised"}

DirectoryGiven == run[2].id.t = "str" => run[2].id.s \in trial.dirs

\* the LLM endpoint answers with one JSON document or with an HTTP error
PlainLlm == \A l \in world.llm : l.kind \in {"json", "http_error"}

C24_StreamedAnswerDiffers ==
  /\ BothDone /\ DirectoryGiven
  /\ trial.first[1] = [status |-> "completed", output |-> TRUE, caller |-> "returned"]
  /\ ResultOf(2) = [status |-> "failed", output |-> FALSE, caller |-> "raised"]

====
